---- MODULE Spec2Model ----
(***************************************************************************)
(* StackMorph backend (src/server.js): the /convert handler in its two    *)
(* variants (whole-project, lines 1-242; per-file, lines 243-419) and the *)
(* two response parsers.                                                   *)
(*                                                                         *)
(* Text is a sequence of tokens.  A token is one character, except that   *)
(* the three literals the regular expressions look for are one token each: *)
(*   "S" = '// START_FILE: '   "E" = '// END_FILE: '   "F" = '```'         *)
(*   "n" = newline   "_" = space   "a","b" = letters   "+" = a character   *)
(*   that is neither a word character nor white space.                     *)
(* (trim leaves a marker literal whole: its last space is not cut off.)    *)
(***************************************************************************)
EXTENDS Naturals, Sequences, FiniteSets, TLC

NumRequests == 2
MaxTime == 1
MaxItems == 3
MaxDepth == 3
MaxFiles == 2

Tokens == {"S", "E", "F", "n", "_", "a", "b", "+"}

\* \s of the regular expressions, restricted to the tokens
IsSpace(t) == t \in {"n", "_"}
\* \S: a token all of whose characters are non-space ("S" and "E" hold spaces)
IsNonSpace(t) == t \in {"a", "b", "+", "F"}
\* \w
IsWord(t) == t \in {"a", "b"}
\* [a-z]
IsLower(t) == t \in {"a", "b"}

Min(S) == CHOOSE x \in S : \A y \in S : x <= y
Max(S) == CHOOSE x \in S : \A y \in S : x >= y

Sub(s, i, j) == IF i > j THEN <<>> ELSE SubSeq(s, i, j)

\* String.prototype.trim
trim(s) ==
    LET keep == {i \in 1..Len(s) : ~IsSpace(s[i])}
    IN  IF keep = {} THEN <<>> ELSE SubSeq(s, Min(keep), Max(keep))

\* index of the first token at or after i that fails P-run membership: the
\* end (exclusive) of the maximal run of tokens in set T starting at i
RunEnd(s, i, T) ==
    LET stop == {k \in i..Len(s) : s[k] \notin T}
    IN  IF stop = {} THEN Len(s) + 1 ELSE Min(stop)

----------------------------------------------------------------------------
(* parseCodeFromResponse, per-file variant:                                *)
(*   /```(?:\w+\n)?([\s\S]+)```/  then  match && match[1] ? trim : trim    *)

\* the group ([\s\S]+) starting at g: greedy, so it ends before the last
\* fence that leaves it non-empty; 0 when there is none
CodeGroupEnd(text, g) ==
    LET close == {L \in (g + 1)..Len(text) : text[L] = "F"}
    IN  IF close = {} THEN 0 ELSE Max(close)

\* the match attempted at the opening fence i: <<g, L>> (group from g to
\* L - 1) or <<0, 0>>; the optional (?:\w+\n) is tried first, then skipped
CodeBlockMatchAt(text, i) ==
    LET w == RunEnd(text, i + 1, {t \in Tokens : IsWord(t)})
        tagged == w > i + 1 /\ w <= Len(text) /\ text[w] = "n"
        g1 == w + 1
    IN  IF tagged /\ CodeGroupEnd(text, g1) # 0 THEN <<g1, CodeGroupEnd(text, g1)>>
        ELSE IF CodeGroupEnd(text, i + 1) # 0
             THEN <<i + 1, CodeGroupEnd(text, i + 1)>>
             ELSE <<0, 0>>

parseCodeFromResponse(text) ==
    LET opens == {i \in 1..Len(text) :
                     text[i] = "F" /\ CodeBlockMatchAt(text, i) # <<0, 0>>}
    IN  IF opens = {} THEN trim(text)
        ELSE LET m == CodeBlockMatchAt(text, Min(opens))
             IN  trim(Sub(text, m[1], m[2] - 1))

----------------------------------------------------------------------------
(* parseAIResponse, whole-project variant                                  *)

\* /^\s*```[a-z]*\n([\s\S]*?)\n```\s*$/ on a captured block
StripFence(c) ==
    LET f == RunEnd(c, 1, {t \in Tokens : IsSpace(t)})
        t == RunEnd(c, f + 1, {t \in Tokens : IsLower(t)})
        opened == f <= Len(c) /\ c[f] = "F" /\ t <= Len(c) /\ c[t] = "n"
        ends == {j \in (t + 1)..(Len(c) - 1) :
                    /\ c[j] = "n" /\ c[j + 1] = "F"
                    /\ \A k \in (j + 2)..Len(c) : IsSpace(c[k])}
    IN  IF opened /\ ends # {} THEN Sub(c, t + 1, Min(ends) - 1) ELSE c

\* the path group ([\S]+) at a start marker i: <<first, last>> of the path,
\* which must run to the newline; <<0, 0>> when the marker does not match
StartPath(text, i) ==
    LET e == RunEnd(text, i + 1, {t \in Tokens : IsNonSpace(t)})
    IN  IF text[i] = "S" /\ e > i + 1 /\ e <= Len(text) /\ text[e] = "n"
        THEN <<i + 1, e - 1>> ELSE <<0, 0>>

\* an end marker line at j that holds exactly `path` (used by the properties)
EndMarkerStrict(text, j, path) ==
    /\ j + 1 + Len(path) <= Len(text)
    /\ text[j] = "n" /\ text[j + 1] = "E"
    /\ SubSeq(text, j + 2, j + 1 + Len(path)) = path
    /\ (j + 2 + Len(path) > Len(text) \/ text[j + 2 + Len(path)] = "n")

\* '\n// END_FILE: \1' at j, for the path captured at the start marker
EndMarkerAt(text, j, path) ==
    /\ j + 1 + Len(path) <= Len(text)
    /\ text[j] = "n" /\ text[j + 1] = "E"
    /\ SubSeq(text, j + 2, j + 1 + Len(path)) = path

\* BlockAt with the content group greedy ([\s\S]*) instead of lazy
BlockAtGreedy(text, i) ==
    LET p == StartPath(text, i)
        path == Sub(text, p[1], p[2])
        ends == {j \in (p[2] + 2)..Len(text) : EndMarkerAt(text, j, path)}
    IN  IF p = <<0, 0>> \/ ends = {} THEN <<>>
        ELSE <<path, Sub(text, p[2] + 2, Max(ends) - 1),
               Max(ends) + 2 + Len(path)>>

\* one fileRegex.exec at position i: <<path, content, lastIndex>> or <<>>
BlockAt(text, i) ==
    LET p == StartPath(text, i)
        path == Sub(text, p[1], p[2])
        ends == {j \in (p[2] + 2)..Len(text) : EndMarkerAt(text, j, path)}
    IN  IF p = <<0, 0>> \/ ends = {} THEN <<>>
        ELSE <<path, Sub(text, p[2] + 2, Min(ends) - 1),
               Min(ends) + 2 + Len(path)>>

\* the while loop over fileRegex.exec, from lastIndex `from`
RECURSIVE ParseFrom(_, _)
ParseFrom(text, from) ==
    LET starts == {i \in from..Len(text) : BlockAt(text, i) # <<>>}
    IN  IF starts = {} THEN <<>>
        ELSE LET m == BlockAt(text, Min(starts))
             IN  <<[path |-> m[1], content |-> trim(StripFence(m[2]))]>>
                 \o ParseFrom(text, m[3])

parseAIResponse(responseText) == ParseFrom(responseText, 1)

----------------------------------------------------------------------------
(* The file system and the uploads.  A path is a sequence of segments; a   *)
(* directory tree is a function from the paths of its regular files to     *)
(* their contents (token sequences).  A file name is <<stem, extension>>   *)
(* joined into one segment string below, with its extension tabulated.     *)

Requests == 1..NumRequests

\* path.extname of the last segment
extname(p) ==
    LET f == p[Len(p)]
    IN  CASE f \in {"a.js", "m.js"} -> ".js"
          [] f = "d.md" -> ".md"
          [] f = "c.png" -> ".png"
          [] f = "e.JS" -> ".JS"
          [] OTHER -> ""

CODE_EXTENSIONS ==
    {".js", ".jsx", ".ts", ".tsx", ".vue", ".svelte", ".html", ".css",
     ".scss", ".json", ".md"}

\* fs.readdirSync order of the segments
SegOrder ==
    <<".git", "a.js", "c.png", "d.md", "e.JS", "m.js", "node_modules", "src">>

EmptyTree == [p \in {} |-> <<>>]

\* the uploads: kind "ok", "badHeader" (new AdmZip throws) or "badEntry"
\* (extractAllTo throws after writing `files`)
ZipA ==
    [kind |-> "ok",
     files |-> (<<"src", "a.js">> :> <<"a">>) @@ (<<"c.png">> :> <<"a", "b">>)
               @@ (<<"e.JS">> :> <<"a">>) @@ (<<"node_modules", "m.js">> :> <<"b">>)]
ZipB ==
    [kind |-> "ok",
     files |-> (<<"src", "a.js">> :> <<"b">>) @@ (<<"c.png">> :> <<"b", "b">>)
               @@ (<<"d.md">> :> <<"a", "a">>) @@ (<<"m.js">> :> <<"_", "n">>)]
ZipBadHeader == [kind |-> "badHeader", files |-> EmptyTree]
ZipBadEntry == [kind |-> "badEntry", files |-> (<<"c.png">> :> <<"a">>)]

ZipMime == "application/zip"

\* what a client may send: req.files.<field> present, req.body.targetStack
\* present, the upload's MIME type and its bytes
Inputs ==
    {[files |-> TRUE, target |-> TRUE, mime |-> ZipMime, zip |-> z] :
        z \in {ZipA, ZipB, ZipBadHeader, ZipBadEntry}}
    \cup {[files |-> FALSE, target |-> TRUE, mime |-> ZipMime, zip |-> ZipA],
          [files |-> TRUE, target |-> FALSE, mime |-> ZipMime, zip |-> ZipA],
          [files |-> TRUE, target |-> TRUE, mime |-> "text/plain", zip |-> ZipA]}

\* what the model may answer
ModelTexts ==
    {<<"S", "a", "n", "b", "n", "E", "a">>,
     <<"F", "a", "n", "b", "n", "F">>}

\* getAllFilePaths(dir) on the tree t, dir given by its path prefix
IsUnder(p, prefix) ==
    Len(p) > Len(prefix) /\ SubSeq(p, 1, Len(prefix)) = prefix

\* WalkFrom that skips node_modules only
RECURSIVE WalkFromNoGit(_, _, _)
WalkFromNoGit(t, prefix, k) ==
    IF k > Len(SegOrder) THEN <<>>
    ELSE LET file == SegOrder[k]
             filePath == Append(prefix, file)
             isDir == \E p \in DOMAIN t : IsUnder(p, filePath)
             here == IF isDir
                     THEN IF file # "node_modules"
                          THEN WalkFromNoGit(t, filePath, 1) ELSE <<>>
                     ELSE IF filePath \in DOMAIN t THEN <<filePath>> ELSE <<>>
         IN  here \o WalkFromNoGit(t, prefix, k + 1)

RECURSIVE WalkFrom(_, _, _)
WalkFrom(t, prefix, k) ==
    IF k > Len(SegOrder) THEN <<>>
    ELSE LET file == SegOrder[k]
             filePath == Append(prefix, file)
             isDir == \E p \in DOMAIN t : IsUnder(p, filePath)
             here == IF isDir
                     THEN IF file # "node_modules" /\ file # ".git"
                          THEN WalkFrom(t, filePath, 1) ELSE <<>>
                     ELSE IF filePath \in DOMAIN t THEN <<filePath>> ELSE <<>>
         IN  here \o WalkFrom(t, prefix, k + 1)

getAllFilePaths(t) == WalkFrom(t, <<>>, 1)

\* allFiles.filter(file => CODE_EXTENSIONS.has(path.extname(file)))
codeFilesOf(allFiles) == SelectSeq(allFiles, LAMBDA f : extname(f) \in CODE_EXTENSIONS)

----------------------------------------------------------------------------
(* The /convert handler.  Node runs a handler without interruption up to   *)
(* its next await, so one action is one such stretch: Arrive runs from the *)
(* top of the handler to the first model invocation (or to the end), and   *)
(* ModelResolves / ModelRejects run from the settled await to the next.    *)

VARIABLES
    variant,      \* which server.js is deployed: "whole" or "perfile"
    apiKey,       \* process.env.GEMINI_API_KEY is set
    now,          \* Date.now()
    fs,           \* tempDir: request directory name -> tree under source/
    pc,           \* per request: "idle", "awaiting", "done"
    input,        \* per request: the request received
    dirName,      \* per request: requestTempDir, <<>> before it is computed
    status,       \* per request: HTTP status sent, 0 before
    body,         \* per request: response body sent
    codeFiles,    \* per request: the filtered walk
    idx,          \* per request: position of the per-file loop
    invoked,      \* per request: the prompts sent, in order (files in each)
    outstanding,  \* per request: invocations awaited and not yet settled
    replies,      \* per request: how each invocation settled, in order
    extracted,    \* per request: extractAllTo was called
    ptext, pdoc, ppc, pfiles, pcode,  \* the parsers' harness (see below)
    wtree, wfiles, wpc                \* the walk's harness (see below)

hvars == <<variant, apiKey, now, fs, pc, input, dirName, status, body,
           codeFiles, idx, invoked, outstanding, replies, extracted>>
pvars == <<ptext, pdoc, ppc, pfiles, pcode>>
wvars == <<wtree, wfiles, wpc>>
vars == <<hvars, pvars, wvars>>

NoDir == <<>>
NoBody == [type |-> "none", error |-> "", entries |-> <<>>]
JsonError(msg) == [type |-> "json", error |-> msg, entries |-> <<>>]
ZipBody(entries) == [type |-> "zip", error |-> "", entries |-> entries]

NoKeyMsg == "Server is not configured with a Gemini API key."
NoUploadMsg == "No .zip file was uploaded."
NoTargetMsg == "The targetStack field is required."
BadMimeMsg == "Invalid file type. Please upload a .zip file."
UnparsableMsg == "Conversion failed: The AI returned an unparsable response."
ServerErrorMsg == "Failed to convert project due to a server error."

IsZipMime(m) == m \in {"application/zip", "application/x-zip-compressed"}

\* ValidationError without the targetStack check
ValidationErrorNoTarget(v, key, inp) ==
    IF ~key THEN [status |-> 500, error |-> NoKeyMsg]
    ELSE IF ~inp.files THEN [status |-> 400, error |-> NoUploadMsg]
    ELSE IF v = "perfile" /\ ~IsZipMime(inp.mime)
         THEN [status |-> 400, error |-> BadMimeMsg]
    ELSE [status |-> 0, error |-> ""]

\* the early returns at the top of the handler; status 0: none taken
ValidationError(v, key, inp) ==
    IF ~key THEN [status |-> 500, error |-> NoKeyMsg]
    ELSE IF ~inp.files THEN [status |-> 400, error |-> NoUploadMsg]
    ELSE IF ~inp.target THEN [status |-> 400, error |-> NoTargetMsg]
    ELSE IF v = "perfile" /\ ~IsZipMime(inp.mime)
         THEN [status |-> 400, error |-> BadMimeMsg]
    ELSE [status |-> 0, error |-> ""]

\* path.join(tempDir, `request-${Date.now()}`)
requestTempDir(t) == <<"request", t>>

\* zip.extractAllTo(extractPath, /*overwrite*/ true)
extractAllTo(fsNow, d, files) ==
    LET old == IF d \in DOMAIN fsNow THEN fsNow[d] ELSE EmptyTree
        new == [p \in DOMAIN old \cup DOMAIN files |->
                   IF p \in DOMAIN files THEN files[p] ELSE old[p]]
    IN  [x \in DOMAIN fsNow \cup {d} |-> IF x = d THEN new ELSE fsNow[x]]

\* Cleanup placed after the try/catch instead of in a finally block: the
\* early return of the unparsable-response branch passes it by
CleanupAfterTry(fsNow, d, how) ==
    IF how = "unparsable" THEN fsNow ELSE [x \in DOMAIN fsNow \ {d} |-> fsNow[x]]

\* the finally block: existsSync, rmSync recursive; `how` is the exit taken
\* ("sent", "unparsable", "caught")
Cleanup(fsNow, d, how) == [x \in DOMAIN fsNow \ {d} |-> fsNow[x]]

\* fs.writeFileSync(filePath, convertedCode): throws when the directory of
\* the file is gone (the result then has ok = FALSE)
writeFileSync(fsNow, d, p, c) ==
    LET parent == SubSeq(p, 1, Len(p) - 1)
        canWrite == /\ d \in DOMAIN fsNow
                    /\ (Len(p) = 1 \/ \E q \in DOMAIN fsNow[d] : IsUnder(q, parent))
    IN  IF canWrite
        THEN [ok |-> TRUE,
              fs |-> [fsNow EXCEPT ![d] =
                        [q \in DOMAIN fsNow[d] \cup {p} |->
                            IF q = p THEN c ELSE fsNow[d][q]]]]
        ELSE [ok |-> FALSE, fs |-> fsNow]

\* a stretch of the handler ends in one of two ways
Exit(fsNow, d, st, b, how) ==
    [fs |-> Cleanup(fsNow, d, how), pc |-> "done", status |-> st, body |-> b,
     idx |-> 0, prompt |-> <<>>]
Await(fsNow, i, files) ==
    [fs |-> fsNow, pc |-> "awaiting", status |-> 0, body |-> NoBody,
     idx |-> i, prompt |-> <<files>>]

\* the catch block of the handler
Caught(fsNow, d) == Exit(fsNow, d, 500, JsonError(ServerErrorMsg), "caught")

\* whole-project: projectContext, the non-blank code files with their text
projectContext(t, code) ==
    LET kept == SelectSeq(code, LAMBDA f : trim(t[f]) # <<>>)
    IN  [i \in 1..Len(kept) |-> [path |-> kept[i], content |-> t[kept[i]]]]

\* WholeAfterReply without the convertedFiles.length === 0 check
WholeAfterReplyNoCheck(fsNow, d, responseText) ==
    Exit(fsNow, d, 200, ZipBody(parseAIResponse(responseText)), "sent")

\* whole-project: after the invocation returned responseText
WholeAfterReply(fsNow, d, responseText) ==
    LET convertedFiles == parseAIResponse(responseText)
    IN  IF Len(convertedFiles) = 0
        THEN Exit(fsNow, d, 500, JsonError(UnparsableMsg), "unparsable")
        ELSE Exit(fsNow, d, 200, ZipBody(convertedFiles), "sent")

\* per-file: the for loop from position i up to the next file it sends:
\* "call" at idx, "end" of the loop, or "throw" of readFileSync
RECURSIVE LoopFrom(_, _, _, _)
LoopFrom(fsNow, d, code, i) ==
    IF i > Len(code) THEN [kind |-> "end", idx |-> i]
    ELSE IF d \notin DOMAIN fsNow \/ code[i] \notin DOMAIN fsNow[d]
         THEN [kind |-> "throw", idx |-> i]
    ELSE IF trim(fsNow[d][code[i]]) = <<>> THEN LoopFrom(fsNow, d, code, i + 1)
    ELSE [kind |-> "call", idx |-> i]

\* per-file: the loop resumed at i, then addLocalFolder and res.send
PerFileContinue(fsNow, d, code, i) ==
    LET s == LoopFrom(fsNow, d, code, i)
    IN  CASE s.kind = "call" ->
               Await(fsNow, s.idx,
                     <<[path |-> code[s.idx], content |-> fsNow[d][code[s.idx]]]>>)
          [] s.kind = "throw" -> Caught(fsNow, d)
          [] OTHER ->
               IF d \in DOMAIN fsNow
               THEN Exit(fsNow, d, 200, ZipBody(fsNow[d]), "sent")
               ELSE Caught(fsNow, d)

\* an inner catch that tries the same file again
InnerCatchRetry(i) == i

\* the inner catch of the per-file loop: the position the loop goes on from
\* after the invocation for file i threw (0: the error leaves the loop)
InnerCatch(i) == i + 1

\* the try block from its first line to the first await
Start(v, fsNow, d, zip) ==
    IF zip.kind = "badHeader" THEN Caught(fsNow, d)
    ELSE LET fs1 == extractAllTo(fsNow, d, zip.files)
             code == codeFilesOf(getAllFilePaths(fs1[d]))
         IN  IF zip.kind = "badEntry" THEN Caught(fs1, d)
             ELSE IF v = "whole"
                  THEN Await(fs1, 0, projectContext(fs1[d], code))
                  ELSE PerFileContinue(fs1, d, code, 1)

\* what a stretch leaves behind for request r
Settle(r, out) ==
    /\ fs' = out.fs
    /\ pc' = [pc EXCEPT ![r] = out.pc]
    /\ status' = [status EXCEPT ![r] = out.status]
    /\ body' = [body EXCEPT ![r] = out.body]
    /\ idx' = [idx EXCEPT ![r] = out.idx]
    /\ invoked' = [invoked EXCEPT ![r] = @ \o out.prompt]
    /\ outstanding' = [outstanding EXCEPT ![r] =
           IF out.prompt = <<>> THEN {} ELSE {Len(invoked[r]) + 1}]

Init ==
    /\ variant \in {"whole", "perfile"}
    /\ apiKey \in BOOLEAN
    /\ now = 0
    /\ fs = [x \in {} |-> EmptyTree]
    /\ pc = [r \in Requests |-> "idle"]
    /\ input = [r \in Requests |-> CHOOSE i \in Inputs : i.zip = ZipA /\ i.files /\ i.target /\ i.mime = ZipMime]
    /\ dirName = [r \in Requests |-> NoDir]
    /\ status = [r \in Requests |-> 0]
    /\ body = [r \in Requests |-> NoBody]
    /\ codeFiles = [r \in Requests |-> <<>>]
    /\ idx = [r \in Requests |-> 0]
    /\ invoked = [r \in Requests |-> <<>>]
    /\ outstanding = [r \in Requests |-> {}]
    /\ replies = [r \in Requests |-> <<>>]
    /\ extracted = [r \in Requests |-> FALSE]
    /\ ptext = <<>> /\ pdoc = <<>> /\ ppc = "off" /\ pfiles = <<>> /\ pcode = <<>>
    /\ wtree = EmptyTree /\ wfiles = <<>> /\ wpc = "off"

\* app.post('/convert'): a request arrives and runs to its first await
\* (requests are numbered in their order of arrival)
Arrive(r, inp) ==
    /\ pc[r] = "idle"
    /\ \A q \in Requests : q < r => pc[q] # "idle"
    /\ input' = [input EXCEPT ![r] = inp]
    /\ LET v == ValidationError(variant, apiKey, inp)
           d == requestTempDir(now)
       IN  IF v.status # 0
           THEN /\ pc' = [pc EXCEPT ![r] = "done"]
                /\ status' = [status EXCEPT ![r] = v.status]
                /\ body' = [body EXCEPT ![r] = JsonError(v.error)]
                /\ UNCHANGED <<fs, dirName, codeFiles, idx, invoked,
                               outstanding, extracted>>
           ELSE /\ dirName' = [dirName EXCEPT ![r] = d]
                /\ extracted' = [extracted EXCEPT ![r] = inp.zip.kind # "badHeader"]
                /\ codeFiles' = [codeFiles EXCEPT ![r] =
                       IF inp.zip.kind = "ok"
                       THEN codeFilesOf(getAllFilePaths(
                                extractAllTo(fs, d, inp.zip.files)[d]))
                       ELSE <<>>]
                /\ Settle(r, Start(variant, fs, d, inp.zip))
    /\ UNCHANGED <<variant, apiKey, now, replies, pvars, wvars>>

\* await ai.models.generateContent(...) returns response.text = text
ModelResolves(r, text) ==
    /\ pc[r] = "awaiting"
    /\ replies' = [replies EXCEPT ![r] = Append(@, [ok |-> TRUE, text |-> text])]
    /\ IF variant = "whole"
       THEN Settle(r, WholeAfterReply(fs, dirName[r], text))
       ELSE LET w == writeFileSync(fs, dirName[r], codeFiles[r][idx[r]],
                                   parseCodeFromResponse(text))
            IN  Settle(r, PerFileContinue(w.fs, dirName[r], codeFiles[r], idx[r] + 1))
    /\ UNCHANGED <<variant, apiKey, now, input, dirName, codeFiles, extracted, pvars, wvars>>

\* await ai.models.generateContent(...) throws
ModelRejects(r) ==
    /\ pc[r] = "awaiting"
    /\ replies' = [replies EXCEPT ![r] = Append(@, [ok |-> FALSE, text |-> <<>>])]
    /\ IF variant = "whole" \/ InnerCatch(idx[r]) = 0
       THEN Settle(r, Caught(fs, dirName[r]))
       ELSE Settle(r, PerFileContinue(fs, dirName[r], codeFiles[r], InnerCatch(idx[r])))
    /\ UNCHANGED <<variant, apiKey, now, input, dirName, codeFiles, extracted, pvars, wvars>>

\* the clock moves on (it is read only when a request arrives)
Tick ==
    /\ now < MaxTime
    /\ \E r \in Requests : pc[r] = "idle"
    /\ now' = now + 1
    /\ UNCHANGED <<variant, apiKey, fs, pc, input, dirName, status, body,
                   codeFiles, idx, invoked, outstanding, replies, extracted, pvars, wvars>>

Next ==
    \/ \E r \in Requests, inp \in Inputs : Arrive(r, inp)
    \/ \E r \in Requests, text \in ModelTexts : ModelResolves(r, text)
    \/ \E r \in Requests : ModelRejects(r)
    \/ Tick

Spec == Init /\ [][Next]_vars

----------------------------------------------------------------------------
(* Properties of the handler, checked under Spec                           *)

\* the request failed one of the checks made before the try block
Invalid(inp) ==
    \/ ~apiKey \/ ~inp.files \/ ~inp.target
    \/ (variant = "perfile" /\ inp.mime \notin
            {"application/zip", "application/x-zip-compressed"})

\* C1: in the step in which the handler of a validated request finishes (by
\* the archive, by the unparsable-response error or by the catch block), its
\* directory request-<timestamp> does not exist afterwards
C1_CleanupOnEveryExit ==
    [][\A r \in Requests :
          (pc[r] # "done" /\ pc'[r] = "done" /\ dirName'[r] # NoDir)
              => dirName'[r] \notin DOMAIN fs']_vars

\* C1 witness: a request that had extracted its upload has finished on the
\* unparsable-response exit, and its directory is gone
C1_Witness ==
    \E r \in Requests :
        /\ pc[r] = "done" /\ extracted[r]
        /\ body[r].error = UnparsableMsg
        /\ dirName[r] \notin DOMAIN fs

\* C2: two requests in flight at the same time have distinct directories
C2_DistinctWorkspaces ==
    \A r, q \in Requests :
        (r # q /\ pc[r] = "awaiting" /\ pc[q] = "awaiting")
            => dirName[r] # dirName[q]

\* C3: a request failing validation is answered with its JSON error (500 for
\* the missing credential, else 400) and never computes a directory, extracts
\* or invokes the model
C3_ValidationBeforeWorkspace ==
    \A r \in Requests :
        (pc[r] # "idle" /\ Invalid(input[r])) =>
            /\ pc[r] = "done"
            /\ status[r] = IF apiKey THEN 400 ELSE 500
            /\ body[r].type = "json"
            /\ dirName[r] = NoDir /\ ~extracted[r]
            /\ invoked[r] = <<>> /\ outstanding[r] = {}

\* C3 witness: a request without targetStack was answered 400, no directory
C3_Witness ==
    \E r \in Requests :
        /\ pc[r] = "done" /\ apiKey /\ input[r].files /\ ~input[r].target
        /\ status[r] = 400 /\ dirName[r] = NoDir /\ fs = [x \in {} |-> EmptyTree]

\* C4: a per-file request of which an invocation failed still ends with the
\* 200 archive, holding the original text of each file whose invocation
\* failed and the converted text of each file whose invocation succeeded
C4_PerFileFailureTolerated ==
    \A r \in Requests :
        (/\ variant = "perfile" /\ pc[r] = "done"
         /\ \E k \in 1..Len(replies[r]) : ~replies[r][k].ok) =>
            /\ status[r] = 200 /\ body[r].type = "zip"
            /\ \A k \in 1..Len(replies[r]) :
                 LET sent == invoked[r][k][1]
                 IN  /\ sent.path \in DOMAIN body[r].entries
                     /\ body[r].entries[sent.path] =
                          IF replies[r][k].ok
                          THEN parseCodeFromResponse(replies[r][k].text)
                          ELSE sent.content

\* C5: whole-project: an archive is sent only with status 200, after the one
\* invocation returned and the parser found a file; a thrown invocation is
\* answered 500 (server error) and zero parsed files 500 (unparsable)
C5_WholeAllOrNothing ==
    \A r \in Requests :
        (variant = "whole" /\ pc[r] = "done") =>
            /\ body[r].type \in {"zip", "json"}
            /\ (body[r].type = "zip") = (status[r] = 200)
            /\ body[r].type = "zip" =>
                 /\ Len(replies[r]) = 1 /\ replies[r][1].ok
                 /\ Len(body[r].entries) >= 1
                 /\ body[r].entries = parseAIResponse(replies[r][1].text)
            /\ (replies[r] # <<>> /\ ~replies[r][1].ok) =>
                 (status[r] = 500 /\ body[r] = JsonError(ServerErrorMsg))
            /\ (replies[r] # <<>> /\ replies[r][1].ok
                  /\ parseAIResponse(replies[r][1].text) = <<>>) =>
                 (status[r] = 500 /\ body[r] = JsonError(UnparsableMsg))

\* C5 witness: a whole-project request answered with the unparsable error
C5_Witness ==
    \E r \in Requests :
        /\ variant = "whole" /\ pc[r] = "done" /\ Len(replies[r]) = 1
        /\ replies[r][1].ok /\ body[r] = JsonError(UnparsableMsg)

\* position of file f in the walk `code`
PosIn(code, f) == CHOOSE i \in 1..Len(code) : code[i] = f

\* C6: a per-file request has at most one invocation outstanding, the next is
\* sent only when every earlier one has settled, and the files invoked are
\* non-blank code files of the walk, in walk order, each at most once
C6_SequentialInvocations ==
    \A r \in Requests :
        variant = "perfile" =>
            /\ Cardinality(outstanding[r]) <= 1
            /\ Len(invoked[r]) = Len(replies[r]) + Cardinality(outstanding[r])
            /\ \A k \in 1..Len(invoked[r]) :
                 /\ Len(invoked[r][k]) = 1
                 /\ \E i \in 1..Len(codeFiles[r]) : codeFiles[r][i] = invoked[r][k][1].path
                 /\ trim(invoked[r][k][1].content) # <<>>
            /\ \A k, l \in 1..Len(invoked[r]) :
                 k < l => PosIn(codeFiles[r], invoked[r][k][1].path)
                            < PosIn(codeFiles[r], invoked[r][l][1].path)

\* C6 witness: the second file's invocation is outstanding after the first
\* one threw
C6_Witness ==
    \E r \in Requests :
        /\ variant = "perfile" /\ Len(invoked[r]) = 2 /\ outstanding[r] = {2}
        /\ ~replies[r][1].ok

\* C9: only files with an allow-listed extension and non-blank text are put
\* in a prompt, and in per-file mode every other uploaded file is in the
\* archive with the bytes it was uploaded with
C9_AllowListDecides ==
    \A r \in Requests :
        /\ \A k \in 1..Len(invoked[r]) : \A j \in 1..Len(invoked[r][k]) :
              /\ extname(invoked[r][k][j].path) \in CODE_EXTENSIONS
              /\ trim(invoked[r][k][j].content) # <<>>
        /\ (variant = "perfile" /\ pc[r] = "done" /\ status[r] = 200) =>
              \A p \in DOMAIN input[r].zip.files :
                  (extname(p) \notin CODE_EXTENSIONS
                     \/ trim(input[r].zip.files[p]) = <<>>) =>
                      /\ p \in DOMAIN body[r].entries
                      /\ body[r].entries[p] = input[r].zip.files[p]

----------------------------------------------------------------------------
(* The two parsers on their own: ParserSpec draws a response text and      *)
(* applies parseAIResponse or parseCodeFromResponse to it.  A text is      *)
(* drawn as a document, so that what the text was built from is known:     *)
(*   "blocks": lines and START_FILE/END_FILE blocks, joined by newlines    *)
(*   "fenced": one fenced code block   "raw": text without a fence         *)

Paths == {<<"a">>, <<"a", "b">>, <<"b">>}
BlockContents == {<<>>, <<"b">>, <<"F", "a", "n", "b", "n", "F">>}
FillerLines == {<<"b">>}
StrayLines == {<<"E", "a", "b">>, <<"S", "a">>}

Items ==
    {[kind |-> "block", path |-> q, content |-> c] : q \in Paths, c \in BlockContents}
    \cup {[kind |-> "line", path |-> <<>>, content |-> l] :
             l \in FillerLines \cup StrayLines}

ItemText(it) ==
    IF it.kind = "block"
    THEN <<"S">> \o it.path \o <<"n">> \o it.content \o <<"n", "E">> \o it.path
    ELSE it.content

RECURSIVE JoinItems(_)
JoinItems(items) ==
    IF items = <<>> THEN <<>>
    ELSE IF Len(items) = 1 THEN ItemText(items[1])
    ELSE ItemText(items[1]) \o <<"n">> \o JoinItems(Tail(items))

FenceTags == {<<>>, <<"a">>, <<"a", "b">>, <<"a", "+">>}
FenceInner == {<<>>, <<"b">>, <<"a", "n", "b">>, <<"b", "_", "a">>}
RawTexts == {<<>>, <<"b">>, <<"_", "a", "_", "b", "n">>, <<"n", "a", "+">>}

SeqsUpTo(S, n) == UNION {[1..k -> S] : k \in 0..n}

Docs ==
    {[kind |-> "blocks", items |-> its, tag |-> <<>>, inner |-> <<>>] :
        its \in SeqsUpTo(Items, MaxItems)}
    \cup {[kind |-> "fenced", items |-> <<>>, tag |-> t, inner |-> c] :
             t \in FenceTags, c \in FenceInner}
    \cup {[kind |-> "raw", items |-> <<>>, tag |-> <<>>, inner |-> c] :
             c \in RawTexts}

Render(doc) ==
    CASE doc.kind = "blocks" -> JoinItems(doc.items)
      [] doc.kind = "fenced" ->
           <<"F">> \o doc.tag \o <<"n">> \o doc.inner
              \o (IF doc.inner = <<>> THEN <<>> ELSE <<"n">>) \o <<"F">>
      [] OTHER -> doc.inner

PInit ==
    /\ variant = "whole" /\ apiKey = TRUE /\ now = 0
    /\ fs = [x \in {} |-> EmptyTree]
    /\ pc = [r \in Requests |-> "idle"]
    /\ input = [r \in Requests |-> CHOOSE i \in Inputs : i.zip = ZipA /\ i.files /\ i.target /\ i.mime = ZipMime]
    /\ dirName = [r \in Requests |-> NoDir]
    /\ status = [r \in Requests |-> 0]
    /\ body = [r \in Requests |-> NoBody]
    /\ codeFiles = [r \in Requests |-> <<>>]
    /\ idx = [r \in Requests |-> 0]
    /\ invoked = [r \in Requests |-> <<>>]
    /\ outstanding = [r \in Requests |-> {}]
    /\ replies = [r \in Requests |-> <<>>]
    /\ extracted = [r \in Requests |-> FALSE]
    /\ pdoc \in Docs
    /\ ptext = Render(pdoc)
    /\ ppc = "input" /\ pfiles = <<>> /\ pcode = <<>>
    /\ wtree = EmptyTree /\ wfiles = <<>> /\ wpc = "off"

RunParseAI ==
    /\ ppc = "input"
    /\ pfiles' = parseAIResponse(ptext)
    /\ ppc' = "parsedAI"
    /\ UNCHANGED <<hvars, wvars, ptext, pdoc, pcode>>

RunParseCode ==
    /\ ppc = "input"
    /\ pcode' = parseCodeFromResponse(ptext)
    /\ ppc' = "parsedCode"
    /\ UNCHANGED <<hvars, wvars, ptext, pdoc, pfiles>>

PNext == RunParseAI \/ RunParseCode

ParserSpec == PInit /\ [][PNext]_vars

----------------------------------------------------------------------------
(* Properties of the parsers, checked under ParserSpec                     *)

\* the blocks of a document, in order
BlocksOf(doc) == SelectSeq(doc.items, LAMBDA it : it.kind = "block")

\* a text made of well-formed blocks with pairwise distinct paths and of
\* lines that are no markers (a fenced or raw document holds no marker)
WellFormed(doc) ==
    /\ \A i \in 1..Len(doc.items) :
          doc.items[i].kind = "line" => doc.items[i].content \in FillerLines
    /\ \A i, j \in 1..Len(BlocksOf(doc)) :
          i # j => BlocksOf(doc)[i].path # BlocksOf(doc)[j].path

\* C7: on a text of N well-formed blocks with distinct paths the parser
\* returns N entries, with the blocks' paths in the blocks' order; with N = 0
\* it returns the empty sequence and the caller answers 'unparsable response'
C7_BlocksInOrder ==
    (ppc = "parsedAI" /\ WellFormed(pdoc)) =>
        /\ Len(pfiles) = Len(BlocksOf(pdoc))
        /\ \A i \in 1..Len(pfiles) : pfiles[i].path = BlocksOf(pdoc)[i].path
        /\ BlocksOf(pdoc) = <<>> =>
             /\ pfiles = <<>>
             /\ WholeAfterReply(fs, NoDir, ptext).body = JsonError(UnparsableMsg)

\* C7 witness: two blocks, the first path a prefix of the second, parsed
C7_Witness ==
    /\ ppc = "parsedAI" /\ WellFormed(pdoc)
    /\ Len(BlocksOf(pdoc)) = 2 /\ Len(pfiles) = 2
    /\ pfiles[1].path = <<"a">> /\ pfiles[2].path = <<"a", "b">>

\* C8: every entry returned comes from a start marker line and a later end
\* marker line that carry the same path, the end marker line holding nothing
\* after the path, with the entry's content captured between the two
C8_IdenticalPaths ==
    ppc = "parsedAI" =>
        \A k \in 1..Len(pfiles) :
            \E i \in 1..Len(ptext) :
                /\ ptext[i] = "S"
                /\ Sub(ptext, i + 1, i + Len(pfiles[k].path)) = pfiles[k].path
                /\ \E j \in (i + 1)..Len(ptext) :
                      /\ EndMarkerStrict(ptext, j, pfiles[k].path)
                      /\ pfiles[k].content =
                           trim(StripFence(Sub(ptext, i + Len(pfiles[k].path) + 2, j - 1)))

\* C10: parseCodeFromResponse returns, for a text that is one fenced block
\* (with or without a language tag), the inner text, and for a text without
\* a fence the trimmed text
C10_FenceStripped ==
    ppc = "parsedCode" =>
        /\ pdoc.kind = "fenced" => pcode = pdoc.inner
        /\ pdoc.kind = "raw" => pcode = trim(ptext)

----------------------------------------------------------------------------
(* getAllFilePaths on its own: WalkSpec draws a directory tree (at most    *)
(* MaxFiles regular files, at most MaxDepth segments deep) and walks it.   *)

DirNames == {"src", "node_modules", ".git"}
\* a regular file may itself be called node_modules
FileNames == {"a.js", "node_modules"}

TreePaths ==
    UNION {{Append(d, f) : d \in [1..k -> DirNames], f \in FileNames} :
              k \in 0..(MaxDepth - 1)}

\* no path of the tree is both a regular file and a directory
Consistent(P) == \A p, q \in P : ~IsUnder(q, p)

\* the subsets of S of at most n elements
RECURSIVE SubsetsUpTo(_, _)
SubsetsUpTo(S, n) ==
    IF n = 0 THEN {{}}
    ELSE LET prev == SubsetsUpTo(S, n - 1)
         IN  prev \cup {Q \cup {p} : Q \in prev, p \in S}

Trees ==
    {[p \in P |-> <<"a">>] :
        P \in {Q \in SubsetsUpTo(TreePaths, MaxFiles) : Consistent(Q)}}

WInit ==
    /\ variant = "whole" /\ apiKey = TRUE /\ now = 0
    /\ fs = [x \in {} |-> EmptyTree]
    /\ pc = [r \in Requests |-> "idle"]
    /\ input = [r \in Requests |-> CHOOSE i \in Inputs : i.zip = ZipA /\ i.files /\ i.target /\ i.mime = ZipMime]
    /\ dirName = [r \in Requests |-> NoDir]
    /\ status = [r \in Requests |-> 0]
    /\ body = [r \in Requests |-> NoBody]
    /\ codeFiles = [r \in Requests |-> <<>>]
    /\ idx = [r \in Requests |-> 0]
    /\ invoked = [r \in Requests |-> <<>>]
    /\ outstanding = [r \in Requests |-> {}]
    /\ replies = [r \in Requests |-> <<>>]
    /\ extracted = [r \in Requests |-> FALSE]
    /\ ptext = <<>> /\ pdoc = <<>> /\ ppc = "off" /\ pfiles = <<>> /\ pcode = <<>>
    /\ wtree \in Trees
    /\ wfiles = <<>> /\ wpc = "input"

RunWalk ==
    /\ wpc = "input"
    /\ wfiles' = getAllFilePaths(wtree)
    /\ wpc' = "walked"
    /\ UNCHANGED <<hvars, pvars, wtree>>

WNext == RunWalk

WalkSpec == WInit /\ [][WNext]_vars

\* p lies under a directory named node_modules or .git
UnderSkipped(p) ==
    \E i \in 1..(Len(p) - 1) : p[i] \in {"node_modules", ".git"}

\* C11: the walk yields no path under a directory named node_modules or
\* .git, at any depth, and yields every other regular file of the tree
\* exactly once (and nothing that is not a file of the tree)
C11_WalkSkipsCaches ==
    wpc = "walked" =>
        /\ \A i \in 1..Len(wfiles) :
              wfiles[i] \in DOMAIN wtree /\ ~UnderSkipped(wfiles[i])
        /\ \A p \in DOMAIN wtree :
              ~UnderSkipped(p) =>
                  Cardinality({i \in 1..Len(wfiles) : wfiles[i] = p}) = 1

\* C11 witness: a tree with a file under a nested node_modules and a file
\* beside that directory was walked, and only the second was yielded
C11_Witness ==
    /\ wpc = "walked"
    /\ <<"src", "node_modules", "a.js">> \in DOMAIN wtree
    /\ <<"src", "a.js">> \in DOMAIN wtree
    /\ wfiles = << <<"src", "a.js">> >>

====
